---- MODULE Spec2Model ----
(***************************************************************************)
(* The sample programs of the repository as one state machine.  Every      *)
(* sample is a standalone program: Init picks the program that runs (prog) *)
(* and its inputs, and the actions are the statements of that program.     *)
(*   samples/ast/function_test.c        prog = "function_test"             *)
(*   samples/optimize-code/sign_check.c prog = "sign_check"                *)
(*   samples/optimize-code/str_copy.c   prog = "str_copy"                  *)
(*   samples/huffman.c                  prog = "huffman"                   *)
(***************************************************************************)
EXTENDS Integers, Sequences, FiniteSets, TLC

VARIABLES
  prog,      \* the sample program that runs
  pc,        \* its position: "<prefix>_<source line>", "<prefix>_abort", "<prefix>_done"
  \* function_test.c
  a, b,      \* the globals  int a, b = 0;
  p1,        \* main's local struct Point_t p1
  \* sign_check.c
  nondet,    \* the value __VERIFIER_nondet_int() returns in work()
  \* str_copy.c, strncpy(dst, src, n)
  dstMem,    \* the object dst points into, by offset
  srcMem,    \* the NUL-terminated object src points to, by offset
  dst, src,  \* the two parameters, as offsets, advanced by the loops
  n,         \* the parameter n, counted down by the loops
  start,     \* the local  char *start
  st_in,     \* the arguments as passed: [dst, n]
  st_ret,    \* the value returned
  wrote,     \* offsets of dstMem written so far
  readIdx,   \* offsets of srcMem read so far
  \* huffman.c, buildHuffmanTree(data, freq, size)
  hf_in,     \* the arguments: [data, freq, size]
  nodes,     \* the MinHeapNode objects malloc'ed so far; a pointer is an index, NULL is 0
  minHeap,   \* struct MinHeap: [size, capacity, array]
  left, right, top,  \* the locals of buildHuffmanTree
  hf_ret     \* the value returned

vars == << prog, pc, a, b, p1, nondet, dstMem, srcMem, dst, src, n, start,
           st_in, st_ret, wrote, readIdx, hf_in, nodes, minHeap, left, right,
           top, hf_ret >>

ft_vars == << a, b, p1 >>
sc_vars == << nondet >>
st_vars == << dstMem, srcMem, dst, src, n, start, st_in, st_ret, wrote, readIdx >>
hf_vars == << hf_in, nodes, minHeap, left, right, top, hf_ret >>

\* ---------------------------------------------------------------- bounds
MaxN      == 3   \* strncpy: n ranges over 0..MaxN
MaxSrcLen == 3   \* strncpy: strlen(src) ranges over 0..MaxSrcLen
MaxSize   == 4   \* buildHuffmanTree: size ranges over 1..MaxSize

NULL == 0

\* C's integer division truncates toward zero; TLA+'s \div floors.
CDiv(x, y) == IF x >= 0 THEN x \div y ELSE -((-x) \div y)

\* The values of the variables of the programs that do not run.
ft_idle == a = 0 /\ b = 0 /\ p1 = << >>
sc_idle == nondet = 0
st_idle == /\ dstMem = << >> /\ srcMem = << >> /\ dst = 0 /\ src = 0 /\ n = 0
           /\ start = 0 /\ st_in = << >> /\ st_ret = 0 /\ wrote = {} /\ readIdx = {}
hf_idle == /\ hf_in = << >> /\ nodes = << >> /\ minHeap = << >>
           /\ left = NULL /\ right = NULL /\ top = NULL /\ hf_ret = NULL

\* ============================================================ function_test.c
add_point(p) == p.x + p.y

add(val1, val2) == val1 + val2

ft_Init ==
  /\ prog = "function_test" /\ pc = "ft_24"
  /\ a = 0 /\ b = 0          \* int a, b = 0;  (a is zero-initialised as a global)
  /\ p1 = << >>
  /\ sc_idle /\ st_idle /\ hf_idle

\* a = add(2, 2);
ft_main_24 ==
  /\ pc = "ft_24"
  /\ a' = add(2, 2)
  /\ pc' = "ft_25"
  /\ UNCHANGED << prog, b, p1, sc_vars, st_vars, hf_vars >>

\* b = add(6, 0);
ft_main_25 ==
  /\ pc = "ft_25"
  /\ b' = add(6, 0)
  /\ pc' = "ft_27"
  /\ UNCHANGED << prog, a, p1, sc_vars, st_vars, hf_vars >>

\* struct Point_t p1 = {a, b};
ft_main_27 ==
  /\ pc = "ft_27"
  /\ p1' = [x |-> a, y |-> b]
  /\ pc' = "ft_28"
  /\ UNCHANGED << prog, a, b, sc_vars, st_vars, hf_vars >>

\* a = add_point(p1);
ft_main_28 ==
  /\ pc = "ft_28"
  /\ a' = add_point(p1)
  /\ pc' = "ft_30"
  /\ UNCHANGED << prog, b, p1, sc_vars, st_vars, hf_vars >>

\* assert(a == 9);  a failed assert aborts the program
ft_main_30 ==
  /\ pc = "ft_30"
  /\ pc' = IF a = 9 THEN "ft_done" ELSE "ft_abort"
  /\ UNCHANGED << prog, ft_vars, sc_vars, st_vars, hf_vars >>

ft_Next == ft_main_24 \/ ft_main_25 \/ ft_main_27 \/ ft_main_28 \/ ft_main_30

\* ============================================================ sign_check.c
is_negative(x) == x # 0 /\ x < 0

is_positive(x) == x >= 0 /\ x # 0

is_zero(x) == x = 0

work(x) ==
  IF is_zero(x) THEN 0
  ELSE IF is_positive(x) THEN 1
  ELSE -1

INT_MAX == 2147483647
INT_MIN == -INT_MAX - 1
\* The values drawn for __VERIFIER_nondet_int().
NondetInts == {INT_MIN, -1, 0, 1, 100, INT_MAX}

sc_Init ==
  /\ prog = "sign_check" /\ pc = "sc_36"
  /\ nondet \in NondetInts
  /\ ft_idle /\ st_idle /\ hf_idle

\* The condition of the assert at each line of main.
sc_assertion(line) ==
  CASE line = "sc_36" -> is_negative(-1)
    [] line = "sc_37" -> ~is_zero(-1)
    [] line = "sc_38" -> is_zero(0)
    [] line = "sc_39" -> is_positive(0)
    [] line = "sc_40" -> is_positive(100)
    [] line = "sc_41" -> work(nondet) # 0

sc_after(line) ==
  CASE line = "sc_36" -> "sc_37"
    [] line = "sc_37" -> "sc_38"
    [] line = "sc_38" -> "sc_39"
    [] line = "sc_39" -> "sc_40"
    [] line = "sc_40" -> "sc_41"
    [] line = "sc_41" -> "sc_42"

\* One statement of main, lines 36 to 42: an assert, after which the program
\* goes on when it holds and aborts when it does not, or the final return 0.
sc_main ==
  /\ pc \in {"sc_36", "sc_37", "sc_38", "sc_39", "sc_40", "sc_41", "sc_42"}
  /\ pc' = IF pc = "sc_42" THEN "sc_done"
           ELSE IF sc_assertion(pc) THEN sc_after(pc)
           ELSE "sc_abort"
  /\ UNCHANGED << prog, ft_vars, sc_vars, st_vars, hf_vars >>

sc_Next == sc_main

\* ============================================================ str_copy.c
\* A size_t is held as the integer with the same bits modulo 2^64: SIZE_MAX,
\* which is what 0 - 1 yields, is -1.
size_dec(x) == x - 1

\* The characters of src's string, and what the dst object holds before the call.
SrcChars == {97, 98}
Fill == 120
AnyChar == SrcChars \cup {0, Fill}

\* The dst object has room for the n positions and two more, so that a write
\* at or beyond dst[n] lands in the object.
DstSize == MaxN + 2

\* Strings of length 0..MaxSrcLen with their terminator, indexed from 0.
RECURSIVE StringsOfLen(_)
StringsOfLen(k) ==
  IF k = 0 THEN { << >> }
  ELSE { Append(s, c) : s \in StringsOfLen(k - 1), c \in SrcChars }

CString(s) == [i \in 0..Len(s) |-> IF i < Len(s) THEN s[i + 1] ELSE 0]

strlen(m) == CHOOSE k \in DOMAIN m : m[k] = 0 /\ \A j \in 0..(k - 1) : m[j] # 0

Min(x, y) == IF x <= y THEN x ELSE y

st_Init ==
  /\ prog = "str_copy" /\ pc = "st_8"
  /\ \E k \in 0..MaxSrcLen : \E s \in StringsOfLen(k) : srcMem = CString(s)
  /\ dstMem = [i \in 0..(DstSize - 1) |-> Fill]
  /\ dst \in {0, 1}
  /\ src = 0
  /\ n \in 0..MaxN
  /\ st_in = [dst |-> dst, n |-> n]
  /\ start = 0 /\ st_ret = 0 /\ wrote = {} /\ readIdx = {}
  /\ ft_idle /\ sc_idle /\ hf_idle

\* char *start = dst;
st_strncpy_8 ==
  /\ pc = "st_8"
  /\ start' = dst
  /\ pc' = "st_10"
  /\ UNCHANGED << prog, dstMem, srcMem, dst, src, n, st_in, st_ret, wrote, readIdx,
                  ft_vars, sc_vars, hf_vars >>

\* while (n && (*dst++ = *src++)) n--;
\* One evaluation of the condition, and the body when it is true.  n is tested
\* first: when it is 0 nothing is read or written.  A read past the end of the
\* src object is undefined and may yield any character.
st_strncpy_10 ==
  /\ pc = "st_10"
  /\ IF n = 0
     THEN /\ pc' = "st_13"
          /\ UNCHANGED << dstMem, dst, src, n, wrote, readIdx >>
     ELSE \E c \in AnyChar :
          /\ (src \in DOMAIN srcMem) => c = srcMem[src]
          /\ readIdx' = readIdx \cup {src}
          /\ dstMem' = [dstMem EXCEPT ![dst] = c]
          /\ wrote' = wrote \cup {dst}
          /\ dst' = dst + 1
          /\ src' = src + 1
          /\ IF c # 0
             THEN n' = n - 1 /\ pc' = "st_10"
             ELSE n' = n /\ pc' = "st_13"
  /\ UNCHANGED << prog, srcMem, start, st_in, st_ret, ft_vars, sc_vars, hf_vars >>

\* if (n)
st_strncpy_13 ==
  /\ pc = "st_13"
  /\ pc' = IF n # 0 THEN "st_14" ELSE "st_17"
  /\ UNCHANGED << prog, st_vars, ft_vars, sc_vars, hf_vars >>

\* while (n--) *dst++ = '\0';   the loop with the decrement after the test
st_strncpy_14_postdec ==
  /\ pc = "st_14"
  /\ n' = size_dec(n)
  /\ IF n # 0
     THEN /\ dstMem' = [dstMem EXCEPT ![dst] = 0]
          /\ wrote' = wrote \cup {dst}
          /\ dst' = dst + 1
          /\ pc' = "st_14"
     ELSE /\ pc' = "st_17"
          /\ UNCHANGED << dstMem, dst, wrote >>
  /\ UNCHANGED << prog, srcMem, src, start, st_in, st_ret, readIdx,
                  ft_vars, sc_vars, hf_vars >>

\* while (--n) *dst++ = '\0';
\* One evaluation of the condition, and the body when it is true.  n is a size_t.
st_strncpy_14 ==
  /\ pc = "st_14"
  /\ n' = size_dec(n)
  /\ IF n' # 0
     THEN /\ dstMem' = [dstMem EXCEPT ![dst] = 0]
          /\ wrote' = wrote \cup {dst}
          /\ dst' = dst + 1
          /\ pc' = "st_14"
     ELSE /\ pc' = "st_17"
          /\ UNCHANGED << dstMem, dst, wrote >>
  /\ UNCHANGED << prog, srcMem, src, start, st_in, st_ret, readIdx,
                  ft_vars, sc_vars, hf_vars >>

\* return start;
st_strncpy_17 ==
  /\ pc = "st_17"
  /\ st_ret' = start
  /\ pc' = "st_done"
  /\ UNCHANGED << prog, dstMem, srcMem, dst, src, n, start, st_in, wrote, readIdx,
                  ft_vars, sc_vars, hf_vars >>

st_Next ==
  st_strncpy_8 \/ st_strncpy_10 \/ st_strncpy_13 \/ st_strncpy_14 \/ st_strncpy_17

\* ============================================================ huffman.c
\* An unsigned is held as the int with the same 32 bits, which is also how the
\* int freq[i] converts to the unsigned parameter of newNode: 0..INT_MAX are
\* themselves and 2^31..UINT_MAX are INT_MIN..-1.
u_lt(x, y) == IF (x >= 0) = (y >= 0) THEN x < y ELSE x >= 0

\* x + y modulo 2^32
u_add(x, y) ==
  IF x >= 0 /\ y >= 0 /\ x > INT_MAX - y THEN (x - INT_MAX) + (y - INT_MAX) - 2
  ELSE IF x < 0 /\ y < 0 /\ x < INT_MIN - y THEN (x + INT_MAX) + (y + INT_MAX) + 2
  ELSE x + y

\* The frequencies drawn for freq[]: small ones, and two whose sum with another
\* wraps around (-1 is UINT_MAX as an unsigned).
FreqVals == {1, 2, 3, -1}

\* struct MinHeapNode *newNode(char data, unsigned freq): the object malloc'ed
newNode(data, freq) == [data |-> data, freq |-> freq, left |-> NULL, right |-> NULL]

\* struct MinHeap *createMinHeap(unsigned capacity); the array is not initialised
createMinHeap(capacity) ==
  [size |-> 0, capacity |-> capacity, array |-> [i \in 0..(capacity - 1) |-> NULL]]

\* swapMinHeapNode(&array[i], &array[j])
swapMinHeapNode(array, i, j) == [array EXCEPT ![i] = array[j], ![j] = array[i]]

\* void minHeapify(struct MinHeap *minHeap, int idx), with the smaller child
\* chosen by > in place of <
RECURSIVE minHeapify_gt(_, _, _)
minHeapify_gt(mh, nd, idx) ==
  LET l == 2 * idx + 1
      r == 2 * idx + 2
      s1 == IF l < mh.size /\ u_lt(nd[mh.array[idx]].freq, nd[mh.array[l]].freq)
            THEN l ELSE idx
      s2 == IF r < mh.size /\ u_lt(nd[mh.array[s1]].freq, nd[mh.array[r]].freq)
            THEN r ELSE s1
  IN  IF s2 # idx
      THEN minHeapify_gt([mh EXCEPT !.array = swapMinHeapNode(mh.array, s2, idx)], nd, s2)
      ELSE mh

\* void minHeapify(struct MinHeap *minHeap, int idx)
RECURSIVE minHeapify(_, _, _)
minHeapify(mh, nd, idx) ==
  LET l == 2 * idx + 1
      r == 2 * idx + 2
      s1 == IF l < mh.size /\ u_lt(nd[mh.array[l]].freq, nd[mh.array[idx]].freq)
            THEN l ELSE idx
      s2 == IF r < mh.size /\ u_lt(nd[mh.array[r]].freq, nd[mh.array[s1]].freq)
            THEN r ELSE s1
  IN  IF s2 # idx
      THEN minHeapify([mh EXCEPT !.array = swapMinHeapNode(mh.array, s2, idx)], nd, s2)
      ELSE mh

isSizeOne(mh) == mh.size = 1

\* struct MinHeapNode *extractMin(struct MinHeap *minHeap): the node returned
\* and the heap it leaves.  Called with size >= 1 only (see hf_extract).
extractMin(mh, nd) ==
  LET temp == mh.array[0]
      m1 == [mh EXCEPT !.array[0] = mh.array[mh.size - 1], !.size = mh.size - 1]
  IN  [ret |-> temp, heap |-> minHeapify(m1, nd, 0)]

\* The while loop of insertMinHeap from index i on.
RECURSIVE insertLoop(_, _, _, _)
insertLoop(array, nd, node, i) ==
  IF i # 0 /\ u_lt(nd[node].freq, nd[array[CDiv(i - 1, 2)]].freq)
  THEN insertLoop([array EXCEPT ![i] = array[CDiv(i - 1, 2)]], nd, node, CDiv(i - 1, 2))
  ELSE [array EXCEPT ![i] = node]

\* void insertMinHeap(struct MinHeap *minHeap, struct MinHeapNode *minHeapNode)
insertMinHeap(mh, nd, node) ==
  LET size == mh.size + 1
  IN  [mh EXCEPT !.size = size, !.array = insertLoop(mh.array, nd, node, size - 1)]

\* The for loop of buildMinHeap from index i down.
RECURSIVE buildLoop(_, _, _)
buildLoop(mh, nd, i) ==
  IF i >= 0 THEN buildLoop(minHeapify(mh, nd, i), nd, i - 1) ELSE mh

\* void buildMinHeap(struct MinHeap *minHeap)
buildMinHeap(mh, nd) ==
  LET k == mh.size - 1
  IN  buildLoop(mh, nd, CDiv(k - 1, 2))

\* createAndBuildMinHeap(data, freq, size): the nodes it allocates, in order
\* (node i + 1 is newNode(data[i], freq[i])), and the heap it returns.
createAndBuildMinHeap(data, freq, size) ==
  LET nd == [i \in 1..size |-> newNode(data[i - 1], freq[i - 1])]
      m0 == createMinHeap(size)
      m1 == [m0 EXCEPT !.array = [i \in 0..(size - 1) |-> i + 1], !.size = size]
  IN  [nodes |-> nd, heap |-> buildMinHeap(m1, nd)]

hf_Init ==
  /\ prog = "huffman" /\ pc = "hf_111"
  /\ \E size \in 1..MaxSize :
       \E freq \in [0..(size - 1) -> FreqVals] :
         hf_in = [data |-> [i \in 0..(size - 1) |-> 97 + i], freq |-> freq, size |-> size]
  /\ nodes = << >> /\ minHeap = << >>
  /\ left = NULL /\ right = NULL /\ top = NULL /\ hf_ret = NULL
  /\ ft_idle /\ sc_idle /\ st_idle

\* struct MinHeap *minHeap = createAndBuildMinHeap(data, freq, size);
hf_buildHuffmanTree_111 ==
  /\ pc = "hf_111"
  /\ LET r == createAndBuildMinHeap(hf_in.data, hf_in.freq, hf_in.size)
     IN  nodes' = r.nodes /\ minHeap' = r.heap
  /\ pc' = "hf_112"
  /\ UNCHANGED << prog, hf_in, left, right, top, hf_ret, ft_vars, sc_vars, st_vars >>

\* while (!isSizeOne(minHeap)) { left = extractMin(minHeap);
hf_buildHuffmanTree_113 ==
  /\ pc = "hf_112"
  /\ ~isSizeOne(minHeap)
  /\ LET r == extractMin(minHeap, nodes)
     IN  left' = r.ret /\ minHeap' = r.heap
  /\ pc' = "hf_114"
  /\ UNCHANGED << prog, hf_in, nodes, right, top, hf_ret, ft_vars, sc_vars, st_vars >>

\* right = extractMin(minHeap);
hf_buildHuffmanTree_114 ==
  /\ pc = "hf_114"
  /\ LET r == extractMin(minHeap, nodes)
     IN  right' = r.ret /\ minHeap' = r.heap
  /\ pc' = "hf_115"
  /\ UNCHANGED << prog, hf_in, nodes, left, top, hf_ret, ft_vars, sc_vars, st_vars >>

\* top = newNode('$', left->freq + right->freq); top->left = left; top->right = right;
hf_buildHuffmanTree_115 ==
  /\ pc = "hf_115"
  /\ LET t == newNode(36, u_add(nodes[left].freq, nodes[right].freq))
     IN  nodes' = Append(nodes, [t EXCEPT !.left = left, !.right = right])
  /\ top' = Len(nodes) + 1
  /\ pc' = "hf_118"
  /\ UNCHANGED << prog, hf_in, minHeap, left, right, hf_ret, ft_vars, sc_vars, st_vars >>

\* insertMinHeap(minHeap, top); }
hf_buildHuffmanTree_118 ==
  /\ pc = "hf_118"
  /\ minHeap' = insertMinHeap(minHeap, nodes, top)
  /\ pc' = "hf_112"
  /\ UNCHANGED << prog, hf_in, nodes, left, right, top, hf_ret, ft_vars, sc_vars, st_vars >>

\* return extractMin(minHeap);
hf_buildHuffmanTree_120 ==
  /\ pc = "hf_112"
  /\ isSizeOne(minHeap)
  /\ LET r == extractMin(minHeap, nodes)
     IN  hf_ret' = r.ret /\ minHeap' = r.heap
  /\ pc' = "hf_done"
  /\ UNCHANGED << prog, hf_in, nodes, left, right, top, ft_vars, sc_vars, st_vars >>

hf_Next ==
  \/ hf_buildHuffmanTree_111 \/ hf_buildHuffmanTree_113 \/ hf_buildHuffmanTree_114
  \/ hf_buildHuffmanTree_115 \/ hf_buildHuffmanTree_118 \/ hf_buildHuffmanTree_120

\* ============================================================ the repository
Init == ft_Init \/ sc_Init \/ st_Init \/ hf_Init

Next == ft_Next \/ sc_Next \/ st_Next \/ hf_Next

Spec == Init /\ [][Next]_vars

\* ============================================================ properties

\* C7 (function_test.c): when main has run a = add(2, 2), b = add(6, 0),
\* p1 = {a, b} and a = add_point(p1), the assertion a == 9 of line 30 holds.
C7_AssertionHolds ==
  (prog = "function_test" /\ pc = "ft_30") => a = 9

\* C8 (sign_check.c): no assertion of main fails: main never aborts, and where
\* main asserts work() != 0 the value work() returns is not 0.
C8_NoAssertionFails ==
  prog = "sign_check" =>
    /\ pc # "sc_abort"
    /\ pc = "sc_41" => work(nondet) # 0

\* C9 (str_copy.c): strncpy(dst, src, n) writes no position at or beyond
\* dst[n] and reads src no further than index min(len(src), n - 1); when it
\* returns it has written exactly dst[0..n-1], the first min(len(src), n) of
\* them holding the characters of src and the others '\0', has left the rest
\* of the object as it was, and returns the dst it was passed.
C9_StrncpyContract ==
  prog = "str_copy" =>
    LET len == strlen(srcMem)
        n0  == st_in.n
        d0  == st_in.dst
        k   == Min(len, n0)
    IN  /\ wrote \subseteq d0..(d0 + n0 - 1)
        /\ readIdx \subseteq 0..Min(len, n0 - 1)
        /\ pc = "st_done" =>
             /\ wrote = d0..(d0 + n0 - 1)
             /\ \A i \in 0..(k - 1) : dstMem[d0 + i] = srcMem[i]
             /\ \A i \in k..(n0 - 1) : dstMem[d0 + i] = 0
             /\ \A j \in DOMAIN dstMem \ (d0..(d0 + n0 - 1)) : dstMem[j] = Fill
             /\ st_ret = d0

\* A call that copied a string shorter than n - 1, wrote its terminator and
\* padded after it, and has returned.
C9_Witness ==
  /\ prog = "str_copy" /\ pc = "st_done"
  /\ strlen(srcMem) >= 1
  /\ st_in.n >= strlen(srcMem) + 2

\* Each node's freq is <= the freq of its children at 2i+1 and 2i+2 (as unsigned).
HeapOrdered(mh, nd) ==
  \A i \in 0..(mh.size - 1) :
    /\ 2 * i + 1 < mh.size => ~u_lt(nd[mh.array[2 * i + 1]].freq, nd[mh.array[i]].freq)
    /\ 2 * i + 2 < mh.size => ~u_lt(nd[mh.array[2 * i + 2]].freq, nd[mh.array[i]].freq)

\* The loop iterations of buildHuffmanTree completed so far: each allocates one node.
Iterations == Len(nodes) - hf_in.size

C10_HeapInv ==
  (prog = "huffman" /\ pc # "hf_111") =>
    /\ HeapOrdered(minHeap, nodes)
    /\ pc = "hf_112" => /\ 1 <= minHeap.size /\ minHeap.size <= minHeap.capacity
                        /\ minHeap.size + Iterations = hf_in.size
    /\ (pc = "hf_112" /\ isSizeOne(minHeap)) => Iterations = hf_in.size - 1
    /\ pc = "hf_done" => Iterations = hf_in.size - 1
    /\ Iterations <= hf_in.size - 1
    /\ pc = "hf_done" \/ ENABLED hf_Next

\* A step that calls extractMin returns a node whose freq no node of the heap
\* it was called on is below.
C10_ExtractsLeast ==
  (prog = "huffman" /\ pc \in {"hf_112", "hf_114"}) =>
    LET ret == IF pc' = "hf_114" THEN left'
               ELSE IF pc' = "hf_115" THEN right'
               ELSE hf_ret'
    IN  \A i \in 0..(minHeap.size - 1) :
          ~u_lt(nodes[minHeap.array[i]].freq, nodes[ret].freq)

\* C10 (huffman.c): for every input with size >= 1 the min-heap order holds
\* after buildMinHeap and after every extractMin and insertMinHeap call of
\* buildHuffmanTree, the heap size is within 1..capacity at every loop head,
\* every extractMin returns a node of least freq among those in the heap, and
\* the loop ends, after exactly size - 1 iterations, with heap size 1 (it never
\* makes more than size - 1 iterations, and the function is never stuck before
\* its return).
C10_HuffmanHeap ==
  /\ []C10_HeapInv
  /\ [][C10_ExtractsLeast]_vars

\* A run on three or more characters, one of whose sums wrapped around
\* (an inner node's freq is below its child's), that has returned.
C10_Witness ==
  /\ prog = "huffman" /\ pc = "hf_done"
  /\ hf_in.size >= 3
  /\ \E t \in 1..Len(nodes) :
       /\ nodes[t].left # NULL
       /\ u_lt(nodes[t].freq, nodes[nodes[t].left].freq)

====
